---- MODULE Spec2Model ----
(***************************************************************************)
(* Model of classifier/learn/exporter.py: Exporter.export and its helpers  *)
(* _convert_to_ort and validate_onnx.                                      *)
(*                                                                         *)
(* The export directory is a map from file name to content.  A file name   *)
(* is a pair <<stem, extension>>.  The external library calls and the      *)
(* external conversion subprocess are the environment: each may succeed or *)
(* raise, and the subprocess may emit any of its output files.             *)
(***************************************************************************)
EXTENDS Integers, Sequences, FiniteSets, TLC

VARIABLES
    pc,          \* position of the run inside export()
    KEEP_ONNX,   \* the module-level "retain originals" switch
    dir_exists,  \* export_dir.exists()
    files,       \* content of the export directory: file name -> content
    i,           \* index of the packaging / packaged-validation loop
    metrics,     \* the report being built: results, error_rates, sizes_mb
    packaging,   \* history: per stem, how its _convert_to_ort call ended
    raised_in,   \* history: the step whose exception left export()
    had_stale,   \* history: the export directory held files when export() was called
    proc,        \* the process running main() of bin/export.py: running, or exited with a status
    rerun,       \* a second export() on the same inputs: the external outcomes and the first report
    vin,         \* one function called alone: its inputs
    vout         \* one function called alone: its result

vars == <<pc, KEEP_ONNX, dir_exists, files, i, metrics, packaging, raised_in, had_stale, proc, rerun, vin, vout>>

\* Python's None, where a result or an input is absent
None == [none |-> TRUE]

\* ---------------------------------------------------------------- bounds
MaxSamples == 3      \* samples per evaluation split
MaxBatchSize == 2    \* the configured batch_size

\* ---------------------------------------------------------------- names
Stems == <<"model_fp32", "model_fp16", "model_int8">>
Variant == [model_fp32 |-> "ORT (FP32)", model_fp16 |-> "ORT (FP16)", model_int8 |-> "ORT (Int8)"]
StemSet == {Stems[k] : k \in 1..Len(Stems)}
PyTorch == "PyTorch (FP32)"

onnx_path(stem) == <<stem, ".onnx">>
onnx_path_pre == <<"model_pre", ".onnx">>
generated_ort(stem) == <<stem, ".with_runtime_opt.ort">>
generated_config(stem) == <<stem, ".required_operators.with_runtime_opt.config">>
target_ort(stem) == <<stem, ".ort">>
target_config(stem) == <<stem, "_operators.config">>
unopt_config(stem) == <<stem, ".required_operators.config">>
config_dst == <<"model", ".config">>
readme_path == <<"README", ".md">>

\* ---------------------------------------------------------------- file system
Exists(f, p) == p \in DOMAIN f
Write(f, p, c) == [q \in DOMAIN f \cup {p} |-> IF q = p THEN c ELSE f[q]]
Unlink(f, p) == [q \in DOMAIN f \ {p} |-> f[q]]
Move(f, src, dst) == Write(Unlink(f, src), dst, f[src])
EmptyDir == [q \in {} |-> "stale"]

\* Path.stat().st_size by content: a complete file is not empty, a file the
\* external step left half-written may be
st_size(c) == IF c = "truncated" THEN 0 ELSE 1
MiB == 1024 * 1024

\* ---------------------------------------------------------------- fractions
RECURSIVE GCD(_, _)
GCD(a, b) == IF b = 0 THEN a ELSE GCD(b, a % b)
\* the float n/d, kept as a reduced fraction
Frac(n, d) == <<n \div GCD(n, d), d \div GCD(n, d)>>

\* ---------------------------------------------------------------- validate_onnx
\* What one batch of a split does when it is run: `n` labels, `correct` of the
\* arg-max predictions equal to the label, or session.run raising.
BatchOutcomes(n) == {[n |-> n, correct |-> c, raises |-> FALSE] : c \in 0..n}
                        \cup {[n |-> n, correct |-> 0, raises |-> TRUE]}

\* The batch sizes of a split of `samples` samples loaded with drop_last=False
BatchSizes(samples, bs) ==
    [k \in 1..((samples + bs - 1) \div bs) |->
        IF k * bs <= samples THEN bs ELSE samples - (k - 1) * bs]

\* every run of one split: one outcome per batch
SplitRuns(samples, bs) ==
    LET sizes == BatchSizes(samples, bs)
    IN  {r \in [DOMAIN sizes -> UNION {BatchOutcomes(sizes[k]) : k \in DOMAIN sizes}] :
            \A k \in DOMAIN sizes : r[k].n = sizes[k]}

\* faulty variant: the except branch skips the batch and goes on (no break)
RECURSIVE BatchLoopContinue(_, _, _, _)
BatchLoopContinue(dl, k, correct, total) ==
    IF k > Len(dl) THEN [correct |-> correct, total |-> total, ran |-> k - 1]
    ELSE IF dl[k].raises THEN BatchLoopContinue(dl, k + 1, correct, total)
    ELSE BatchLoopContinue(dl, k + 1, correct + dl[k].correct, total + dl[k].n)

\* the batch loop of one split (for batch in dl ... break on exception)
RECURSIVE BatchLoop(_, _, _, _)
BatchLoop(dl, k, correct, total) ==
    IF k > Len(dl) THEN [correct |-> correct, total |-> total, ran |-> k - 1]
    ELSE IF dl[k].raises THEN [correct |-> correct, total |-> total, ran |-> k]
    ELSE BatchLoop(dl, k + 1, correct + dl[k].correct, total + dl[k].n)

\* the number of batches of a split on which session.run was called
BatchesRun(dl) == BatchLoop(dl, 1, 0, 0).ran

\* faulty variant: the accuracy is reported instead of the error
SplitErrAccuracy(dl) ==
    LET acc == BatchLoop(dl, 1, 0, 0)
    IN  IF acc.total > 0 THEN Frac(acc.correct, acc.total) ELSE Frac(0, 1)

\* err = 1.0 - (correct / total if total > 0 else 0)
SplitErr(dl) ==
    LET acc == BatchLoop(dl, 1, 0, 0)
    IN  IF acc.total > 0 THEN Frac(acc.total - acc.correct, acc.total) ELSE Frac(1, 1)

\* validate_onnx(model_path, name) once the session is open
validate_onnx(exists, train, valid) ==
    IF ~exists THEN None
    ELSE [train_err |-> SplitErr(train), valid_err |-> SplitErr(valid)]

\* ---------------------------------------------------------------- _convert_to_ort
\* The files onnxruntime.tools.convert_onnx_models_to_ort may write for a stem
ToolOutputs == {"unopt_ort", "unopt_config", "opt_ort", "opt_config"}

\* How one run of the external step can end: its exit status, the outputs it
\* wrote, and whether the unoptimized <stem>.ort it wrote is complete.  A run
\* that reports success wrote complete files.
ToolOutcomes ==
    {[exit |-> "ok", emitted |-> e, intact |-> TRUE] : e \in SUBSET ToolOutputs}
    \cup {[exit |-> "fail", emitted |-> e, intact |-> b] :
              e \in SUBSET ToolOutputs, b \in BOOLEAN}

WriteIf(f, cond, p, c) == IF cond THEN Write(f, p, c) ELSE f

\* subprocess.run(cmd, check=True, capture_output=True): the directory after it
subprocess_run(f, stem, o) ==
    LET f1 == WriteIf(f, "unopt_ort" \in o.emitted, target_ort(stem),
                      IF o.intact THEN "unopt" ELSE "truncated")
        f2 == WriteIf(f1, "unopt_config" \in o.emitted, unopt_config(stem), "ops_unopt")
        f3 == WriteIf(f2, "opt_ort" \in o.emitted, generated_ort(stem), "opt")
    IN  WriteIf(f3, "opt_config" \in o.emitted, generated_config(stem), "ops_opt")

\* faulty variant: the optimized file is not moved onto <stem>.ort
RenameOutputsNoMove(f, stem, keep) ==
    LET f2 == IF Exists(f, generated_config(stem))
              THEN Move(f, generated_config(stem), target_config(stem)) ELSE f
        f3 == IF Exists(f2, unopt_config(stem)) THEN Unlink(f2, unopt_config(stem)) ELSE f2
    IN  IF ~keep /\ Exists(f3, onnx_path(stem)) THEN Unlink(f3, onnx_path(stem)) ELSE f3

\* faulty variant: the .onnx artifact is never removed
RenameOutputsKeepOnnx(f, stem, keep) ==
    LET f1 == IF Exists(f, generated_ort(stem))
              THEN Move(f, generated_ort(stem), target_ort(stem)) ELSE f
        f2 == IF Exists(f1, generated_config(stem))
              THEN Move(f1, generated_config(stem), target_config(stem)) ELSE f1
    IN  IF Exists(f2, unopt_config(stem)) THEN Unlink(f2, unopt_config(stem)) ELSE f2

\* faulty variant: the unoptimized operator config is not cleaned up
RenameOutputsKeepUnoptConfig(f, stem, keep) ==
    LET f1 == IF Exists(f, generated_ort(stem))
              THEN Move(f, generated_ort(stem), target_ort(stem)) ELSE f
        f2 == IF Exists(f1, generated_config(stem))
              THEN Move(f1, generated_config(stem), target_config(stem)) ELSE f1
    IN  IF ~keep /\ Exists(f2, onnx_path(stem)) THEN Unlink(f2, onnx_path(stem)) ELSE f2

\* the part of _convert_to_ort after a successful external step
RenameOutputs(f, stem, keep) ==
    LET f1 == IF Exists(f, generated_ort(stem))
              THEN Move(f, generated_ort(stem), target_ort(stem)) ELSE f
        f2 == IF Exists(f1, generated_config(stem))
              THEN Move(f1, generated_config(stem), target_config(stem)) ELSE f1
        f3 == IF Exists(f2, unopt_config(stem)) THEN Unlink(f2, unopt_config(stem)) ELSE f2
    IN  IF ~keep /\ Exists(f3, onnx_path(stem)) THEN Unlink(f3, onnx_path(stem)) ELSE f3

\* faulty variant: no return after a failed external step
convert_to_ortNoReturn(f, stem, o, keep) ==
    RenameOutputs(subprocess_run(f, stem, o), stem, keep)

\* _convert_to_ort(onnx_path): the directory after the call
convert_to_ort(f, stem, o, keep) ==
    LET ran == subprocess_run(f, stem, o)
    IN  IF o.exit = "fail" THEN ran ELSE RenameOutputs(ran, stem, keep)

\* how the call ended, for the history variable
PackagingResult(f, stem, o) ==
    IF o.exit = "fail" THEN "failed"
    ELSE IF Exists(subprocess_run(f, stem, o), generated_ort(stem)) THEN "packaged"
    ELSE "skipped"

\* ---------------------------------------------------------------- export()
EmptyMetrics == [results |-> <<>>, error_rates |-> <<>>, sizes_mb |-> <<>>]

\* metrics[...][variant] = ... for one validated variant
AddEntry(m, variant, res, size) ==
    [results |-> [v \in DOMAIN m.results \cup {variant} |->
                     IF v = variant THEN res ELSE m.results[v]],
     error_rates |-> [v \in DOMAIN m.error_rates \cup {variant} |->
                     IF v = variant THEN res.valid_err ELSE m.error_rates[v]],
     sizes_mb |-> [v \in DOMAIN m.sizes_mb \cup {variant} |->
                     IF v = variant THEN size ELSE m.sizes_mb[v]]]

\* faulty variant: the size is recorded outside the "if res:"
RecordVariantSizeAlways(m, variant, res, size) ==
    IF res # None THEN AddEntry(m, variant, res, size)
    ELSE [m EXCEPT !.sizes_mb = [v \in DOMAIN m.sizes_mb \cup {variant} |->
                                    IF v = variant THEN 0 ELSE m.sizes_mb[v]]]

\* faulty variant: the packaged result is stored under the baseline's key
RecordVariantOverBaseline(m, variant, res, size) ==
    IF res # None THEN AddEntry(m, "PyTorch (FP32)", res, size) ELSE m

\* the loop body of step 5: if res: metrics[...][variant] = ...
RecordVariant(m, variant, res, size) ==
    IF res # None THEN AddEntry(m, variant, res, size) ELSE m

\* self.validate(model, name): the native evaluation of the in-memory model
NativeResults ==
    {[train_err |-> Frac(0, 1), valid_err |-> e, train_loss |-> "loss", valid_loss |-> "loss"] :
        e \in {Frac(0, 1), Frac(1, 2)}}

\* the inference runs the packaged validation meets inside export()
ExportRuns ==
    {[train |-> <<[n |-> 1, correct |-> 1, raises |-> FALSE]>>,
      valid |-> <<[n |-> 1, correct |-> 1, raises |-> FALSE]>>],
     [train |-> <<[n |-> 1, correct |-> 1, raises |-> FALSE]>>,
      valid |-> <<[n |-> 1, correct |-> 0, raises |-> TRUE]>>]}

Raise(step) ==
    /\ pc' = "failed"
    /\ raised_in' = step

\* faulty variant: the directory is created if missing and its content kept (merge)
SetupDirMerge(f) == f

\* if export_dir.exists(): shutil.rmtree(export_dir); export_dir.mkdir(...)
SetupDir(f) == EmptyDir

\* Exporter.__init__: model.pth is loaded, or FileNotFoundError
Construct ==
    /\ pc = "construct"
    /\ \E model_path_exists \in BOOLEAN :
          IF model_path_exists
          THEN pc' = "start" /\ UNCHANGED raised_in
          ELSE pc' = "init_failed" /\ raised_in' = "init"
    /\ UNCHANGED <<KEEP_ONNX, dir_exists, files, i, metrics, packaging, had_stale, proc, rerun,
                   vin, vout>>

Setup ==
    /\ pc = "start"
    /\ files' = SetupDir(files)
    /\ dir_exists' = TRUE
    /\ pc' = "fp32"
    /\ UNCHANGED <<KEEP_ONNX, i, metrics, packaging, raised_in, had_stale, proc, rerun, vin, vout>>

\* 1. torch.onnx.export(...)
ExportFP32 ==
    /\ pc = "fp32"
    /\ \/ /\ files' = Write(files, onnx_path("model_fp32"), "fp32")
          /\ pc' = "fp16"
          /\ UNCHANGED raised_in
       \/ /\ Raise("fp32")
          /\ UNCHANGED files
    /\ UNCHANGED <<KEEP_ONNX, dir_exists, i, metrics, packaging, had_stale, proc, rerun, vin, vout>>

\* onnx.load; convert_float_to_float16; onnx.save
ConvertFP16 ==
    /\ pc = "fp16"
    /\ \/ /\ Exists(files, onnx_path("model_fp32"))
          /\ files' = Write(files, onnx_path("model_fp16"), "fp16")
          /\ pc' = "pre"
          /\ UNCHANGED raised_in
       \/ /\ Raise("fp16")
          /\ UNCHANGED files
    /\ UNCHANGED <<KEEP_ONNX, dir_exists, i, metrics, packaging, had_stale, proc, rerun, vin, vout>>

\* quant_pre_process(onnx_path_fp32, onnx_path_pre)
PreProcess ==
    /\ pc = "pre"
    /\ \/ /\ Exists(files, onnx_path("model_fp32"))
          /\ files' = Write(files, onnx_path_pre, "pre")
          /\ pc' = "quant"
          /\ UNCHANGED raised_in
       \/ /\ Raise("pre")
          /\ UNCHANGED files
    /\ UNCHANGED <<KEEP_ONNX, dir_exists, i, metrics, packaging, had_stale, proc, rerun, vin, vout>>

\* faulty variant: the cleanup also removes the FP32 artifact
QuantizeAndCleanupFP32(f) ==
    LET q == Write(f, <<"model_int8", ".onnx">>, "int8")
    IN  [p \in DOMAIN q \ {<<"model_pre", ".onnx">>, <<"model_fp32", ".onnx">>} |-> q[p]]

\* quantize_dynamic(...) and, when it returns, the cleanup of model_pre.onnx
QuantizeAndCleanup(f) ==
    LET q == Write(f, onnx_path("model_int8"), "int8")
    IN  IF Exists(q, onnx_path_pre) THEN Unlink(q, onnx_path_pre) ELSE q

Quantize ==
    /\ pc = "quant"
    /\ \/ /\ files' = QuantizeAndCleanup(files)
          /\ pc' = "pack"
          /\ i' = 1
          /\ UNCHANGED raised_in
       \/ /\ Raise("quant")
          /\ UNCHANGED <<files, i>>
    /\ UNCHANGED <<KEEP_ONNX, dir_exists, metrics, packaging, had_stale, proc, rerun, vin, vout>>

\* 4. for onnx_file in [...]: if onnx_file.exists(): self._convert_to_ort(onnx_file)
Package ==
    /\ pc = "pack"
    /\ LET stem == Stems[i] IN
         IF Exists(files, onnx_path(stem))
         THEN \E o \in ToolOutcomes :
                /\ files' = convert_to_ort(files, stem, o, KEEP_ONNX)
                /\ packaging' = [packaging EXCEPT ![stem] = PackagingResult(files, stem, o)]
         ELSE UNCHANGED <<files, packaging>>
    /\ IF i < Len(Stems) THEN i' = i + 1 /\ pc' = pc
                         ELSE i' = 1 /\ pc' = "validate"
    /\ UNCHANGED <<KEEP_ONNX, dir_exists, metrics, raised_in, had_stale, proc, rerun, vin, vout>>

\* 5. metrics = {...}; pytorch_res = self.validate(...); metrics[...]["PyTorch (FP32)"] = ...
ValidateNative ==
    /\ pc = "validate"
    /\ \E res \in NativeResults :
          metrics' = AddEntry(EmptyMetrics, PyTorch, res, <<st_size("pth"), MiB>>)
    /\ pc' = "validate_onnx"
    /\ UNCHANGED <<KEEP_ONNX, dir_exists, files, i, packaging, raised_in, had_stale, proc, rerun, vin, vout>>

\* ort.InferenceSession(str(model_path), ...) raises on a file that is no model
SessionOpens(c) == c # "truncated"

\* one iteration of: for ort_path, variant in [...]: res = self.validate_onnx(...); if res: ...
ValidatePackaged ==
    /\ pc = "validate_onnx"
    /\ LET stem == Stems[i]
           path == target_ort(stem)
       IN  IF Exists(files, path) /\ ~SessionOpens(files[path])
           THEN /\ Raise("validate_onnx")
                /\ UNCHANGED <<metrics, i>>
           ELSE /\ \E run \in ExportRuns :
                     metrics' = RecordVariant(metrics, Variant[stem],
                                    validate_onnx(Exists(files, path), run.train, run.valid),
                                    IF Exists(files, path)
                                    THEN <<st_size(files[path]), MiB>> ELSE None)
                /\ IF i < Len(Stems) THEN i' = i + 1 /\ pc' = pc
                                     ELSE i' = 1 /\ pc' = "config"
                /\ UNCHANGED raised_in
    /\ UNCHANGED <<KEEP_ONNX, dir_exists, files, packaging, had_stale, proc, rerun, vin, vout>>

\* 6. json.dump(config_data, f) into model.config
WriteConfig ==
    /\ pc = "config"
    /\ files' = Write(files, config_dst, "config")
    /\ pc' = "readme"
    /\ UNCHANGED <<KEEP_ONNX, dir_exists, i, metrics, packaging, raised_in, had_stale, proc, rerun, vin, vout>>

\* 7. readme_path.write_text(notes_str); return metrics
WriteReadme ==
    /\ pc = "readme"
    /\ files' = Write(files, readme_path, "notes")
    /\ pc' = "done"
    /\ UNCHANGED <<KEEP_ONNX, dir_exists, i, metrics, packaging, raised_in, had_stale, proc, rerun, vin, vout>>

\* main(): try: Exporter(...); exporter.export(...) except Exception as e: print(...)
\* and then main returns, so the interpreter ends with status 0 either way
MainExit ==
    /\ proc.status = "running"
    /\ pc \in {"done", "failed", "init_failed"}
    /\ proc' = [status |-> "exited",
                message |-> IF pc = "done" THEN "none" ELSE "Export failed",
                code |-> 0]
    /\ UNCHANGED <<pc, KEEP_ONNX, dir_exists, files, i, metrics, packaging, raised_in,
                   had_stale, rerun, vin, vout>>

\* what a previous run may have left in the export directory
StaleNames == {target_ort(s) : s \in StemSet} \cup {config_dst, readme_path, onnx_path_pre}

Init ==
    /\ pc = "construct"
    /\ KEEP_ONNX \in BOOLEAN
    /\ dir_exists \in BOOLEAN
    /\ \E old \in SUBSET StaleNames :
          /\ (~dir_exists => old = {})
          /\ files = [q \in old |-> "stale"]
    /\ i = 1
    /\ metrics = EmptyMetrics
    /\ packaging = [s \in StemSet |-> "notrun"]
    /\ raised_in = "none"
    /\ had_stale = (DOMAIN files # {})
    /\ proc = [status |-> "running"]
    /\ rerun = None
    /\ vin = None
    /\ vout = [called |-> FALSE]

\* ---------------------------------------------------------------- validate_onnx alone
\* the inputs of one validate_onnx call: whether the package exists, the
\* configured batch size, and what each batch of the two splits does
ValidateInputs ==
    UNION {[exists : BOOLEAN, bs : {bs},
            train : UNION {SplitRuns(n, bs) : n \in 0..MaxSamples},
            valid : UNION {SplitRuns(n, bs) : n \in 0..MaxSamples}] : bs \in 1..MaxBatchSize}

InitValidate ==
    /\ pc = "validate_onnx"
    /\ KEEP_ONNX = FALSE
    /\ dir_exists = TRUE
    /\ files = EmptyDir
    /\ i = 1
    /\ metrics = EmptyMetrics
    /\ packaging = [s \in StemSet |-> "notrun"]
    /\ raised_in = "none"
    /\ had_stale = FALSE
    /\ proc = [status |-> "running"]
    /\ rerun = None
    /\ vin \in ValidateInputs
    /\ vout = [called |-> FALSE]

CallValidateOnnx ==
    /\ ~vout.called
    /\ vout' = [called |-> TRUE,
                res |-> validate_onnx(vin.exists, vin.train, vin.valid),
                ran |-> IF vin.exists
                        THEN [train |-> BatchesRun(vin.train), valid |-> BatchesRun(vin.valid)]
                        ELSE [train |-> 0, valid |-> 0]]
    /\ UNCHANGED <<pc, KEEP_ONNX, dir_exists, files, i, metrics, packaging, raised_in,
                   had_stale, proc, rerun, vin>>

NextValidate == CallValidateOnnx

SpecValidate == InitValidate /\ [][NextValidate]_vars

\* ---------------------------------------------------------------- get_notes
\* the model names of the report, as the code points Python compares
Chars ==
    [n \in {"ORT (FP16)", "ORT (FP32)", "ORT (Int8)", "PyTorch (FP32)"} |->
        CASE n = "ORT (FP16)" -> <<79, 82, 84, 32, 40, 70, 80, 49, 54, 41>>
          [] n = "ORT (FP32)" -> <<79, 82, 84, 32, 40, 70, 80, 51, 50, 41>>
          [] n = "ORT (Int8)" -> <<79, 82, 84, 32, 40, 73, 110, 116, 56, 41>>
          [] n = "PyTorch (FP32)" -> <<80, 121, 84, 111, 114, 99, 104, 32, 40, 70, 80, 51, 50, 41>>]
ModelNames == DOMAIN Chars

\* str.__lt__: lexicographic on code points, a proper prefix is smaller
RECURSIVE LexLess(_, _)
LexLess(a, b) ==
    IF a = <<>> THEN b # <<>>
    ELSE IF b = <<>> THEN FALSE
    ELSE IF Head(a) < Head(b) THEN TRUE
    ELSE IF Head(a) > Head(b) THEN FALSE
    ELSE LexLess(Tail(a), Tail(b))

\* sorted(keys): each key is put before the first larger one
RECURSIVE InsertSorted(_, _)
InsertSorted(x, sorted) ==
    IF sorted = <<>> THEN <<x>>
    ELSE IF LexLess(Chars[x], Chars[Head(sorted)]) THEN <<x>> \o sorted
    ELSE <<Head(sorted)>> \o InsertSorted(x, Tail(sorted))
RECURSIVE Sorted(_)
Sorted(keys) == IF keys = <<>> THEN <<>> ELSE InsertSorted(Head(keys), Sorted(Tail(keys)))

\* f"{err:.2%}": the percentage in hundredths, rounded to the nearest
FormatPct(err) == (2 * 10000 * err[1] + err[2]) \div (2 * err[2])
\* f"{size:.2f}": the size in hundredths, rounded to the nearest
FormatSize(size) ==
    100 * (size[1] \div size[2]) + (2 * 100 * (size[1] % size[2]) + size[2]) \div (2 * size[2])

\* a dict kept as its items in insertion order
Keys(items) == [k \in DOMAIN items |-> items[k][1]]
Lookup(items, key) == items[CHOOSE k \in DOMAIN items : items[k][1] = key][2]
\* metrics["sizes_mb"].get(model, 0)
GetSize(sizes, key) ==
    IF \E k \in DOMAIN sizes : sizes[k][1] = key THEN Lookup(sizes, key) ELSE <<0, 1>>

NoteRow(m, model) ==
    [model |-> model,
     err |-> FormatPct(Lookup(m.error_rates, model)),
     size |-> FormatSize(GetSize(m.sizes_mb, model))]

\* faulty variant: the rows follow the insertion order of the dict
get_notesUnsorted(m) ==
    [rows |-> [k \in DOMAIN m.error_rates |-> NoteRow(m, Keys(m.error_rates)[k])],
     train_samples |-> m.train_samples,
     valid_samples |-> m.valid_samples]

\* get_notes(metrics): the table rows and the dataset lines of the summary
get_notes(m) ==
    LET order == Sorted(Keys(m.error_rates))
    IN  [rows |-> [k \in DOMAIN order |-> NoteRow(m, order[k])],
         train_samples |-> m.train_samples,
         valid_samples |-> m.valid_samples]

\* the metrics get_notes is called with: any set of models entered in any order
NotesErrs == {Frac(0, 1), Frac(2, 25)}
Injective(f) == \A a, b \in DOMAIN f : f[a] = f[b] => a = b
NotesInputs ==
    {[error_rates |-> e,
      sizes_mb |-> [k \in DOMAIN e |-> <<e[k][1], <<45 * MiB + 524288, MiB>>>>],
      train_samples |-> 200, valid_samples |-> 50] :
        e \in {x \in UNION {[1..n -> ModelNames \X NotesErrs] : n \in 0..Cardinality(ModelNames)} :
                  Injective(Keys(x))}}

InitNotes ==
    /\ pc = "readme"
    /\ KEEP_ONNX = FALSE
    /\ dir_exists = TRUE
    /\ files = EmptyDir
    /\ i = 1
    /\ metrics = EmptyMetrics
    /\ packaging = [s \in StemSet |-> "notrun"]
    /\ raised_in = "none"
    /\ had_stale = FALSE
    /\ proc = [status |-> "running"]
    /\ rerun = None
    /\ vin \in NotesInputs
    /\ vout = [called |-> FALSE]

CallGetNotes ==
    /\ ~vout.called
    /\ vout' = [called |-> TRUE, notes |-> get_notes(vin)]
    /\ UNCHANGED <<pc, KEEP_ONNX, dir_exists, files, i, metrics, packaging, raised_in,
                   had_stale, proc, rerun, vin>>

NextNotes == CallGetNotes

SpecNotes == InitNotes /\ [][NextNotes]_vars

\* ---------------------------------------------------------------- _convert_to_ort alone
\* the export directory when step 4 starts: the three artifacts
ArtifactsDir ==
    Write(Write(Write(EmptyDir, onnx_path("model_fp32"), "fp32"),
                onnx_path("model_fp16"), "fp16"), onnx_path("model_int8"), "int8")

\* the directories the k-th call of step 4 can find: the earlier stems packaged
RECURSIVE DirsBefore(_, _)
DirsBefore(k, keep) ==
    IF k = 1 THEN {ArtifactsDir}
    ELSE {convert_to_ort(d, Stems[k - 1], o, keep) :
             d \in DirsBefore(k - 1, keep), o \in ToolOutcomes}

PackageInputs ==
    UNION {[stem : {Stems[k]}, keep : {keep}, o : ToolOutcomes, dir : DirsBefore(k, keep)] :
              k \in 1..Len(Stems), keep \in BOOLEAN}

InitPackage ==
    /\ pc = "pack"
    /\ KEEP_ONNX = FALSE
    /\ dir_exists = TRUE
    /\ files = EmptyDir
    /\ i = 1
    /\ metrics = EmptyMetrics
    /\ packaging = [s \in StemSet |-> "notrun"]
    /\ raised_in = "none"
    /\ had_stale = FALSE
    /\ proc = [status |-> "running"]
    /\ rerun = None
    /\ vin \in PackageInputs
    /\ vout = [called |-> FALSE]

CallConvertToOrt ==
    /\ ~vout.called
    /\ vout' = [called |-> TRUE, dir |-> convert_to_ort(vin.dir, vin.stem, vin.o, vin.keep)]
    /\ UNCHANGED <<pc, KEEP_ONNX, dir_exists, files, i, metrics, packaging, raised_in,
                   had_stale, proc, rerun, vin>>

NextPackage == CallConvertToOrt

SpecPackage == InitPackage /\ [][NextPackage]_vars

\* ---------------------------------------------------------------- export() run twice
\* The external outcomes of a run, fixed in advance so that a second run can meet
\* the same ones: the step that raises (if any), what the packaging tool does
\* for each artifact, what the native validation returns and how inference goes.
RerunTools ==
    {[exit |-> "ok", emitted |-> ToolOutputs, intact |-> TRUE],
     [exit |-> "ok", emitted |-> {}, intact |-> TRUE],
     [exit |-> "fail", emitted |-> {"unopt_ort"}, intact |-> FALSE],
     [exit |-> "fail", emitted |-> {"unopt_ort", "unopt_config"}, intact |-> TRUE]}
RerunScripts ==
    [raise : {"none", "fp32", "fp16", "pre", "quant"},
     tool : [StemSet -> RerunTools],
     native : {CHOOSE r \in NativeResults : r.valid_err = Frac(1, 2)},
     run : ExportRuns]

InitRerun ==
    /\ pc = "start"
    /\ KEEP_ONNX \in BOOLEAN
    /\ dir_exists \in BOOLEAN
    /\ \E old \in SUBSET StaleNames :
          /\ (~dir_exists => old = {})
          /\ files = [q \in old |-> "stale"]
    /\ i = 1
    /\ metrics = EmptyMetrics
    /\ packaging = [s \in StemSet |-> "notrun"]
    /\ raised_in = "none"
    /\ had_stale = (DOMAIN files # {})
    /\ proc = [status |-> "running"]
    /\ rerun \in [run : {1}, script : RerunScripts, first : {None}]
    /\ vin = None
    /\ vout = [called |-> FALSE]

Scripted(step) == (pc' = "failed") <=> (rerun.script.raise = step)
ScriptedExportFP32 == ExportFP32 /\ Scripted("fp32")
ScriptedConvertFP16 == ConvertFP16 /\ Scripted("fp16")
ScriptedPreProcess == PreProcess /\ Scripted("pre")
ScriptedQuantize == Quantize /\ Scripted("quant")
ScriptedPackage ==
    /\ Package
    /\ LET stem == Stems[i]
           o == rerun.script.tool[stem]
       IN  Exists(files, onnx_path(stem)) =>
              /\ files' = convert_to_ort(files, stem, o, KEEP_ONNX)
              /\ packaging'[stem] = PackagingResult(files, stem, o)
ScriptedValidateNative ==
    /\ ValidateNative
    /\ metrics'.results[PyTorch] = rerun.script.native
ScriptedValidatePackaged ==
    /\ ValidatePackaged
    /\ LET stem == Stems[i]
           path == target_ort(stem)
       IN  pc' # "failed" =>
              metrics' = RecordVariant(metrics, Variant[stem],
                             validate_onnx(Exists(files, path), rerun.script.run.train,
                                           rerun.script.run.valid),
                             IF Exists(files, path) THEN <<st_size(files[path]), MiB>> ELSE None)

\* export() is called again: on no directory, or on what the first run left,
\* with whatever else was put there in between
Rerun ==
    /\ rerun.run = 1
    /\ pc \in {"done", "failed"}
    /\ rerun' = [rerun EXCEPT !.run = 2,
                              !.first = [pc |-> pc, raised_in |-> raised_in, metrics |-> metrics]]
    /\ \/ files' = EmptyDir /\ dir_exists' = FALSE
       \/ /\ dir_exists' = TRUE
          /\ \E old \in SUBSET StaleNames :
                files' = [q \in DOMAIN files \cup old |-> IF q \in old THEN "stale" ELSE files[q]]
    /\ had_stale' = (DOMAIN files' # {})
    /\ pc' = "start"
    /\ i' = 1
    /\ metrics' = EmptyMetrics
    /\ packaging' = [s \in StemSet |-> "notrun"]
    /\ raised_in' = "none"
    /\ UNCHANGED <<KEEP_ONNX, proc, vin, vout>>

NextRerun ==
    \/ Setup
    \/ ScriptedExportFP32
    \/ ScriptedConvertFP16
    \/ ScriptedPreProcess
    \/ ScriptedQuantize
    \/ ScriptedPackage
    \/ ScriptedValidateNative
    \/ ScriptedValidatePackaged
    \/ WriteConfig
    \/ WriteReadme
    \/ Rerun

SpecRerun == InitRerun /\ [][NextRerun]_vars

Next ==
    \/ Construct
    \/ Setup
    \/ ExportFP32
    \/ ConvertFP16
    \/ PreProcess
    \/ Quantize
    \/ Package
    \/ ValidateNative
    \/ ValidatePackaged
    \/ WriteConfig
    \/ WriteReadme
    \/ MainExit

Spec == Init /\ [][Next]_vars

\* ---------------------------------------------------------------- properties
\* the orchestrator state the run is in at a step of export()
OrchState(step) ==
    CASE step \in {"start", "fp32"} -> "INIT"
      [] step \in {"fp16", "pre", "quant"} -> "BASELINE_EXPORTED"
      [] step = "pack" -> "PRECISION_VARIANTS_EXPORTED"
      [] step \in {"validate", "validate_onnx"} -> "PACKAGED"
      [] step = "config" -> "VALIDATED"
      [] step = "readme" -> "REPORTED"
      [] step = "done" -> "DONE"
      [] OTHER -> "FAILED"

Reported(variant) == variant \in DOMAIN metrics.results
Complete(variant) ==
    /\ variant \in DOMAIN metrics.results
    /\ variant \in DOMAIN metrics.error_rates
    /\ variant \in DOMAIN metrics.sizes_mb
Int8OnlyFails ==
    /\ packaging["model_fp32"] = "packaged"
    /\ packaging["model_fp16"] = "packaged"
    /\ packaging["model_int8"] = "failed"

\* C1: when the external packaging step fails for the Int8 artifact only, export()
\* does not raise, and the report it returns has complete entries for ORT (FP32)
\* and ORT (FP16) and no entry for ORT (Int8).
C1_FailureIsolation ==
    Int8OnlyFails =>
        /\ pc # "failed"
        /\ pc = "done" => /\ Complete("ORT (FP32)")
                          /\ Complete("ORT (FP16)")
                          /\ ~Reported("ORT (Int8)")

\* C2: the run ends FAILED only from INIT or BASELINE_EXPORTED; no failure from
\* the packaging of the precision variants onward makes export() raise.
C2_FailedOnlyEarly ==
    pc = "failed" => OrchState(raised_in) \in {"INIT", "BASELINE_EXPORTED"}

\* C3: the three maps of the report have the same key set in every state, and a
\* packaged variant whose .ort file is missing has an entry in none of them.
C3_SameKeys ==
    /\ DOMAIN metrics.results = DOMAIN metrics.error_rates
    /\ DOMAIN metrics.results = DOMAIN metrics.sizes_mb
    /\ \A s \in StemSet :
         ~Exists(files, target_ort(s)) =>
            /\ Variant[s] \notin DOMAIN metrics.results
            /\ Variant[s] \notin DOMAIN metrics.error_rates
            /\ Variant[s] \notin DOMAIN metrics.sizes_mb

C3_Witness ==
    /\ pc = "done"
    /\ Reported("ORT (FP32)")
    /\ ~Exists(files, target_ort("model_int8"))
    /\ DOMAIN metrics.sizes_mb = {PyTorch, "ORT (FP32)", "ORT (FP16)"}

\* C4: every packaged variant in the returned report was packaged in this run
\* (the external step succeeded and produced the optimized package) and its
\* .ort file exists when export() returns.
C4_OnlyCompletedVariants ==
    pc = "done" =>
        \A s \in StemSet :
            Reported(Variant[s]) =>
                /\ packaging[s] = "packaged"
                /\ Exists(files, target_ort(s))

\* C5: for each precision variant whose packaging succeeded, the returned report
\* holds a non-null validation error rate and a strictly positive size.
C5_PackagedIsReported ==
    pc = "done" =>
        \A s \in StemSet :
            packaging[s] = "packaged" =>
                /\ Variant[s] \in DOMAIN metrics.error_rates
                /\ metrics.error_rates[Variant[s]] # None
                /\ Variant[s] \in DOMAIN metrics.sizes_mb
                /\ metrics.sizes_mb[Variant[s]] # None
                /\ metrics.sizes_mb[Variant[s]][1] > 0

C5_Witness ==
    /\ pc = "done"
    /\ \A s \in StemSet : packaging[s] = "packaged"
    /\ \A s \in StemSet : metrics.sizes_mb[Variant[s]][1] > 0

\* C6: once export() has set up its directory, no file of the directory's earlier
\* content exists, and no variant is in the report with a stale file behind it.
C6_FullReplace ==
    pc \notin {"construct", "init_failed", "start"} =>
        /\ \A p \in DOMAIN files : files[p] # "stale"
        /\ \A s \in StemSet :
             Reported(Variant[s]) =>
                Exists(files, target_ort(s)) /\ files[target_ort(s)] # "stale"

C6_Witness ==
    /\ had_stale
    /\ pc = "done"
    /\ Reported("ORT (FP32)")
    /\ ~Reported("ORT (Int8)")

\* C7 as claimed: with KEEP_ONNX off, after every packaging call the artifact
\* <variant>.onnx is gone and export() returns with no .onnx file left; with
\* KEEP_ONNX on the artifact is still there.
C7_ArtifactDeletedAfterEveryCall ==
    /\ \A s \in StemSet :
         packaging[s] # "notrun" => (Exists(files, onnx_path(s)) <=> KEEP_ONNX)
    /\ (pc = "done" /\ ~KEEP_ONNX) => \A p \in DOMAIN files : p[2] # ".onnx"

\* C7 amended: with KEEP_ONNX off, after every packaging call whose external
\* step succeeded the artifact is gone, and the only .onnx files left when
\* export() returns are the artifacts whose packaging failed; with KEEP_ONNX on,
\* or after a failed external step, the artifact is still there.
C7_ArtifactDeletedAfterSuccess ==
    /\ \A s \in StemSet :
         packaging[s] # "notrun" =>
            (Exists(files, onnx_path(s)) <=> (KEEP_ONNX \/ packaging[s] = "failed"))
    /\ (pc = "done" /\ ~KEEP_ONNX) =>
          \A p \in DOMAIN files :
              p[2] = ".onnx" => (p[1] \in StemSet /\ packaging[p[1]] = "failed")

C7_Witness ==
    /\ pc = "done"
    /\ ~KEEP_ONNX
    /\ packaging["model_fp32"] = "packaged"
    /\ packaging["model_fp16"] = "skipped"
    /\ packaging["model_int8"] = "failed"
    /\ ~Exists(files, onnx_path("model_fp32"))
    /\ Exists(files, onnx_path("model_int8"))

\* C8: when the external step reports success but <stem>.with_runtime_opt.ort is
\* absent, the call does not raise and the variant is skipped: it has no entry
\* in the report, even when the step wrote an unoptimized <stem>.ort.
C8_MissingOutputSkipped ==
    \A s \in StemSet :
        packaging[s] = "skipped" =>
            /\ ~(pc = "failed" /\ raised_in = "pack")
            /\ pc \in {"config", "readme", "done"} => ~Reported(Variant[s])

\* C9: in every state after quantize_dynamic has finished or raised, also when
\* export() ends with an exception, model_pre.onnx does not exist.
C9_PreProcessedFileDeleted ==
    (\/ pc \in {"pack", "validate", "validate_onnx", "config", "readme", "done"}
     \/ pc = "failed" /\ raised_in \in {"quant", "pack", "validate_onnx"})
        => ~Exists(files, onnx_path_pre)

\* C10: when inference raises on a batch of a split, the counts of the earlier
\* batches are dropped: the split's error is that of a split with no evaluated
\* samples.
Raises(dl) == \E k \in DOMAIN dl : dl[k].raises
C10_PartialCountsDropped ==
    (vout.called /\ vin.exists) =>
        /\ Raises(vin.train) => vout.res.train_err = SplitErr(<<>>)
        /\ Raises(vin.valid) => vout.res.valid_err = SplitErr(<<>>)

\* C11: an inference exception on a batch does not leave validate_onnx and aborts
\* only its own split: the batches after it are not run, the other split is run
\* in full, and the result has both a train_err and a valid_err.
FirstRaise(dl) == CHOOSE k \in DOMAIN dl : dl[k].raises /\ \A j \in 1..(k - 1) : ~dl[j].raises
ExpectedRun(dl) == IF Raises(dl) THEN FirstRaise(dl) ELSE Len(dl)
C11_ExceptionAbortsOneSplit ==
    (vout.called /\ vin.exists) =>
        /\ DOMAIN vout.res = {"train_err", "valid_err"}
        /\ vout.ran.train = ExpectedRun(vin.train)
        /\ vout.ran.valid = ExpectedRun(vin.valid)

C11_Witness ==
    /\ vout.called /\ vin.exists
    /\ Len(vin.train) = 3 /\ vin.train[1].raises
    /\ vout.ran.train = 1
    /\ Len(vin.valid) = 2 /\ ~Raises(vin.valid)
    /\ vout.ran.valid = 2

\* C12: every error rate of the packaged path is in [0, 1], equals
\* 1 - correct/total over the batches counted before any exception when that
\* total is positive, and is exactly 1 when nothing was counted (in particular
\* for a split of zero samples).
Counted(dl) == {k \in DOMAIN dl : \A j \in 1..k : ~dl[j].raises}
RECURSIVE SumLabels(_, _)
SumLabels(dl, S) ==
    IF S = {} THEN 0 ELSE LET k == CHOOSE x \in S : TRUE IN dl[k].n + SumLabels(dl, S \ {k})
RECURSIVE SumCorrect(_, _)
SumCorrect(dl, S) ==
    IF S = {} THEN 0 ELSE LET k == CHOOSE x \in S : TRUE IN dl[k].correct + SumCorrect(dl, S \ {k})
ErrIsRight(err, dl) ==
    LET total == SumLabels(dl, Counted(dl))
        correct == SumCorrect(dl, Counted(dl))
    IN  /\ 0 <= err[1] /\ err[1] <= err[2] /\ err[2] > 0
        /\ total > 0 => err[1] * total = (total - correct) * err[2]
        /\ total = 0 => err[1] = err[2]
C12_ErrorRateRange ==
    (vout.called /\ vin.exists) =>
        /\ ErrIsRight(vout.res.train_err, vin.train)
        /\ ErrIsRight(vout.res.valid_err, vin.valid)

C12_Witness ==
    /\ vout.called /\ vin.exists
    /\ vin.valid = <<>> /\ vout.res.valid_err = <<1, 1>>
    /\ Len(vin.train) = 2 /\ vin.train[2].raises /\ vin.train[1].correct = 1
    /\ vout.res.train_err = <<1, 2>>

\* C18: after a packaging call whose external step succeeds and emits its
\* expected outputs, the directory holds for that stem exactly <stem>.ort, with
\* the runtime-optimized content, and <stem>_operators.config (and the artifact
\* when KEEP_ONNX is on); none of the external step's own names remain.
OfStem(f, stem) == {p \in DOMAIN f : p[1] = stem}
C18_CanonicalNames ==
    (vout.called /\ vin.o.exit = "ok" /\ {"opt_ort", "opt_config"} \subseteq vin.o.emitted) =>
        /\ Exists(vout.dir, target_ort(vin.stem))
        /\ vout.dir[target_ort(vin.stem)] = "opt"
        /\ Exists(vout.dir, target_config(vin.stem))
        /\ vout.dir[target_config(vin.stem)] = "ops_opt"
        /\ ~Exists(vout.dir, generated_ort(vin.stem))
        /\ ~Exists(vout.dir, generated_config(vin.stem))
        /\ ~Exists(vout.dir, unopt_config(vin.stem))
        /\ OfStem(vout.dir, vin.stem) =
              {target_ort(vin.stem), target_config(vin.stem)}
                 \cup (IF vin.keep THEN {onnx_path(vin.stem)} ELSE {})

C18_Witness ==
    /\ vout.called
    /\ vin.o.exit = "ok" /\ vin.o.emitted = ToolOutputs
    /\ vin.stem = "model_int8" /\ ~vin.keep
    /\ vout.dir[target_ort("model_int8")] = "opt"
    /\ OfStem(vout.dir, "model_int8") = {target_ort("model_int8"), target_config("model_int8")}

\* C20: a packaging call whose external step reports failure changes nothing
\* itself: the artifact and the files of the other stems are as they were, every
\* file the step wrote is still under the step's own name, and <stem>.ort exists
\* only if the step wrote it.
C20_FailureChangesNothing ==
    (vout.called /\ vin.o.exit = "fail") =>
        /\ Exists(vout.dir, onnx_path(vin.stem))
        /\ vout.dir[onnx_path(vin.stem)] = vin.dir[onnx_path(vin.stem)]
        /\ \A p \in DOMAIN vin.dir :
              p[1] # vin.stem => Exists(vout.dir, p) /\ vout.dir[p] = vin.dir[p]
        /\ \A p \in DOMAIN vout.dir : p[1] # vin.stem => Exists(vin.dir, p)
        /\ Exists(vout.dir, target_ort(vin.stem)) <=> "unopt_ort" \in vin.o.emitted
        /\ Exists(vout.dir, target_ort(vin.stem)) => vout.dir[target_ort(vin.stem)] # "opt"
        /\ Exists(vout.dir, unopt_config(vin.stem)) <=> "unopt_config" \in vin.o.emitted
        /\ Exists(vout.dir, generated_ort(vin.stem)) <=> "opt_ort" \in vin.o.emitted
        /\ Exists(vout.dir, generated_config(vin.stem)) <=> "opt_config" \in vin.o.emitted
        /\ ~Exists(vout.dir, target_config(vin.stem))

C20_Witness ==
    /\ vout.called
    /\ vin.o.exit = "fail" /\ vin.o.emitted = ToolOutputs
    /\ vin.stem = "model_fp16"
    /\ Exists(vin.dir, target_ort("model_fp32"))
    /\ Exists(vout.dir, generated_ort("model_fp16"))
    /\ Exists(vout.dir, onnx_path("model_fp16"))

\* C15: the rows of the summary are in lexicographic order of model name, one row
\* per model of the error-rate map, and they are the same for every order in
\* which the same entries were inserted into the metrics.
Reordered(m, q) ==
    [m EXCEPT !.error_rates = [k \in DOMAIN q |-> m.error_rates[q[k]]],
              !.sizes_mb = [k \in DOMAIN q |-> m.sizes_mb[q[k]]]]
Orders(n) == {q \in [1..n -> 1..n] : Injective(q)}
C15_NotesSorted ==
    vout.called =>
        LET rows == vout.notes.rows
            n == Len(vin.error_rates)
        IN  /\ Len(rows) = n
            /\ {rows[k].model : k \in DOMAIN rows} = {vin.error_rates[k][1] : k \in 1..n}
            /\ \A j, k \in DOMAIN rows :
                  j < k => LexLess(Chars[rows[j].model], Chars[rows[k].model])
            /\ \A q \in Orders(n) : get_notes(Reordered(vin, q)) = vout.notes

C15_Witness ==
    /\ vout.called
    /\ Keys(vin.error_rates) = <<"PyTorch (FP32)", "ORT (FP32)", "ORT (FP16)", "ORT (Int8)">>
    /\ [k \in 1..4 |-> vout.notes.rows[k].model]
          = <<"ORT (FP16)", "ORT (FP32)", "ORT (Int8)", "PyTorch (FP32)">>
    /\ vout.notes.rows[1].err \in {0, 800}
    /\ vout.notes.rows[1].size = 4550

\* C13: after a fatal error (the weights file is missing, the baseline
\* serialization or the quantization pre-processing raises) main() presents a
\* message and the process ends with a non-zero status, never with success.
FatalError ==
    \/ pc = "init_failed"
    \/ pc = "failed" /\ raised_in \in {"fp32", "pre"}
C13_FatalEndsNonZero ==
    (FatalError /\ proc.status = "exited") =>
        /\ proc.message = "Export failed"
        /\ proc.code # 0

\* C14: when export() has raised, the export directory holds neither
\* model.config nor README.md; while export() runs, a report file exists only
\* once the native validation and the three packaged validations are over, and
\* it is the one this run wrote.
ReportFiles == {config_dst, readme_path}
InExport == pc \notin {"construct", "init_failed", "start"}
BaselineIsNative(m) ==
    /\ PyTorch \in DOMAIN m.results
    /\ m.results[PyTorch] \in NativeResults
    /\ PyTorch \in DOMAIN m.error_rates
    /\ m.error_rates[PyTorch] = m.results[PyTorch].valid_err
BaselineKept ==
    PyTorch \in DOMAIN metrics.results =>
        /\ PyTorch \in DOMAIN metrics'.results
        /\ metrics'.results[PyTorch] = metrics.results[PyTorch]
        /\ metrics'.error_rates[PyTorch] = metrics.error_rates[PyTorch]
C16_BaselineFromNativePath ==
    /\ []((pc \in {"validate_onnx", "config", "readme", "done"} \/ metrics # EmptyMetrics)
            => BaselineIsNative(metrics))
    /\ [][BaselineKept]_vars

C16_Witness ==
    /\ pc = "done"
    /\ packaging["model_int8"] = "failed"
    /\ Reported("ORT (FP32)")
    /\ ~Reported("ORT (FP16)")
    /\ metrics.error_rates[PyTorch] = Frac(1, 2)
    /\ metrics.error_rates["ORT (FP32)"] = Frac(1, 1)

\* C19: every step of export() finds the files it reads: model_fp32.onnx exists
\* when the FP16 conversion and the Int8 pre-processing run, model_pre.onnx when
\* the quantization runs, each artifact is still there when its packaging turn
\* comes, no package is validated before the three packaging turns are over,
\* and an artifact disappears only in its own packaging turn, after the external
\* packaging step has run on it and returned.
ArtifactRemoved(s) == Exists(files, onnx_path(s)) /\ ~Exists(files', onnx_path(s))
RemovedInOwnTurn ==
    \A s \in StemSet :
        ArtifactRemoved(s) => (pc = "pack" /\ Stems[i] = s /\ packaging'[s] \in {"packaged", "skipped"})
C19_ReadBeforeDelete ==
    /\ [](pc \in {"fp16", "pre"} => Exists(files, onnx_path("model_fp32")))
    /\ [](pc = "quant" => Exists(files, onnx_path_pre))
    /\ [](pc = "pack" => \A k \in i..Len(Stems) :
                            /\ Exists(files, onnx_path(Stems[k]))
                            /\ packaging[Stems[k]] = "notrun")
    /\ [](pc \in {"validate", "validate_onnx"} => \A s \in StemSet : packaging[s] # "notrun")
    /\ [][RemovedInOwnTurn]_vars

C19_Witness ==
    /\ pc = "done"
    /\ ~KEEP_ONNX
    /\ \A s \in StemSet : packaging[s] = "packaged"
    /\ \A p \in DOMAIN files : p[2] # ".onnx"

\* C17: when export() is run twice and every external step gives the same
\* outcome in both runs, the second run ends as the first did (returns, or
\* raises in the same step) and, when it returns, its report has the same
\* variants and the same error rates, whatever directory each run started on.
C17_Idempotent ==
    (rerun # None /\ rerun.run = 2 /\ pc \in {"done", "failed"}) =>
        /\ pc = rerun.first.pc
        /\ raised_in = rerun.first.raised_in
        /\ pc = "done" =>
              /\ DOMAIN metrics.results = DOMAIN rerun.first.metrics.results
              /\ DOMAIN metrics.error_rates = DOMAIN rerun.first.metrics.error_rates
              /\ metrics.error_rates = rerun.first.metrics.error_rates

C17_Witness ==
    /\ rerun # None
    /\ rerun.run = 2
    /\ pc = "done"
    /\ had_stale
    /\ DOMAIN metrics.error_rates = {PyTorch, "ORT (FP32)"}
    /\ rerun.first.metrics.error_rates = metrics.error_rates

====
